---- MODULE Spec2Model ----
(***************************************************************************)
(* Model of src/web/AsciiBackground.tsx: the two React components          *)
(* AsciiBackground (the spec's FrameCycler) and ScrollingAscii (the spec's *)
(* ScrollLayer).                                                           *)
(*                                                                         *)
(* Each component instance is a slot that the host page mounts, re-renders *)
(* with new props, and unmounts.  In SpecCycler, SpecScroll, Spec and       *)
(* SpecDrift one action is a timer callback (or a mount, re-render or      *)
(* unmount by the host) together with the render, the commit and the       *)
(* effects (cleanup of the previous interval, creation of the next) that   *)
(* React runs for it: the effects of a commit are flushed before the host  *)
(* runs the instance's next timer callback, the updater a tick queues is   *)
(* evaluated once, and the frame index and the set index it produces are   *)
(* committed together.  The interval callback reads the values its closure *)
(* captured when the effect created it; they are kept apart from the       *)
(* committed state, so that a closure the effect failed to renew shows.    *)
(*                                                                         *)
(* Two further specifications drop one of these orderings each, since the  *)
(* source does not enforce them itself.  In SpecLag the passive effects of *)
(* a commit are a step of their own, so a timer callback that is already   *)
(* due can run between the commit and the effects.  In SpecReplay the host *)
(* may evaluate the updater of a tick twice.                               *)
(*                                                                         *)
(* Indices are 0-based as in the source; TLA+ sequences are 1-based, so    *)
(* frame f of set s is frameSets[s + 1][f + 1].                            *)
(***************************************************************************)
EXTENDS Integers, Sequences, FiniteSets, TLC

\* ------------------------------------------------------------------ bounds
NumScrolls == 2
MaxSets == 2
MaxFrames == 3
MaxScrollFrames == 2
MaxTicks == 7
MaxLeaks == 1
MaxLoops == 2

\* The cyclers and the scroll layers of the page.
CyclerIds == {1}
ScrollIds == 1..NumScrolls
\* The scroll layers of a page that also holds a cycler.
MixedScrollIds == {1}

\* ------------------------------------------------------- program constants
DefaultFrameRate == 200
DefaultScrollFrameRate == 150
DefaultScrollDuration == 20
DefaultDirection == "right"

\* What indexing past the end of a JavaScript array yields; frames are labelled
\* from 1, so 0 is no frame.
Undefined == 0

\* An optional prop is <<>> when the host leaves it out and <<v>> when it passes v.
Omitted == <<>>
RateOptions == {Omitted, <<100>>}
DirectionOptions == {Omitted, <<"left">>, <<"right">>}

VARIABLES
    mounted,          \* cycler i is in the tree
    frameSets,        \* its frameSets prop: a sequence of sequences of frames
    frameRate,        \* its frameRate prop after defaulting
    setIndex,         \* useState: setIndex
    frameIndex,       \* useState: frameIndex
    timers,           \* number of live intervals the instance created
    closure,          \* what the latest interval callback captured (= the effect's deps)
    ticks,            \* tick callbacks applied since mount
    sMounted,         \* scroll layer j is in the tree
    frames,           \* its frames prop
    sFrameRate,       \* its frameRate prop after defaulting
    direction,        \* its direction prop as the host passed it
    scrollFrameIndex, \* useState: frameIndex of ScrollingAscii
    sTimers,          \* number of live intervals the instance created
    sClosure,         \* what the latest interval callback captured
    loops,            \* completed iterations of the layer's position animation
    head,             \* document.head: the sequence of appended style elements
    cLeaks,           \* callbacks of unmounted cyclers invoked by hand
    sLeaks            \* callbacks of unmounted scroll layers invoked by hand

cvars == <<mounted, frameSets, frameRate, setIndex, frameIndex, timers, closure, ticks>>
svars == <<sMounted, frames, sFrameRate, direction, scrollFrameIndex, sTimers,
           sClosure, loops, head>>
leaks == <<cLeaks, sLeaks>>
vars == <<cvars, svars, leaks>>

\* ------------------------------------------------------------ frame data
\* Frames are opaque text blocks; frame k of the page's data is the label k, so
\* every position of every set holds a different frame.
FrameSeq(first, n) == [k \in 1..n |-> first + k - 1]

RECURSIVE MkSetsFrom(_, _)
MkSetsFrom(lens, first) ==
    IF lens = <<>> THEN <<>>
    ELSE <<FrameSeq(first, Head(lens))>> \o MkSetsFrom(Tail(lens), first + Head(lens))

MkSets(lens) == MkSetsFrom(lens, 1)

LenVectors == UNION {[1..n -> 1..MaxFrames] : n \in 1..MaxSets}
FrameSetsOptions == {MkSets(lens) : lens \in LenVectors}
FramesOptions == {FrameSeq(1, n) : n \in 1..MaxScrollFrames}

NoClosure == [rate |-> 0, nsets |-> 0, len |-> 0]

\* --------------------------------------------------------- AsciiBackground
\* frameRate = 200 in the parameter list.
RateOrDefault(r) == IF r = Omitted THEN DefaultFrameRate ELSE r[1]

\* frameSets[setIndex].length; an index past the end has no length to read.
SetLen(sets, s) == IF s + 1 \in DOMAIN sets THEN Len(sets[s + 1]) ELSE 0

\* const currentFrame = currentFrameSet[frameIndex]
FrameAt(sets, s, f) ==
    IF s + 1 \in DOMAIN sets /\ f + 1 \in DOMAIN sets[s + 1]
    THEN sets[s + 1][f + 1] ELSE Undefined

currentFrame(i) == FrameAt(frameSets[i], setIndex[i], frameIndex[i])

\* The dependency array [frameRate, frameSets.length, currentFrameSet.length];
\* the callback reads nothing of its closure but these lengths.
DepsOf(rate, sets, s) == [rate |-> rate, nsets |-> Len(sets), len |-> SetLen(sets, s)]

DepsChangedNoLen(old, new) == old.rate # new.rate \/ old.nsets # new.nsets
DepsChanged(old, new) == old # new

\* nextFrame >= currentFrameSet.length, on the captured set
WrapsGt(prevFrame, capLen) == prevFrame + 1 > capLen
Wraps(prevFrame, capLen) == prevFrame + 1 >= capLen

\* The updater passed to setFrameIndex: its return value.
NextFrameOne(prevFrame, capLen) == IF Wraps(prevFrame, capLen) THEN 1 ELSE prevFrame + 1
NextFrameKeep(prevFrame, capLen) == IF Wraps(prevFrame, capLen) THEN prevFrame ELSE prevFrame + 1
NextFrame(prevFrame, capLen) == IF Wraps(prevFrame, capLen) THEN 0 ELSE prevFrame + 1

\* The updater passed to setSetIndex.
NextSetNoMod(prevSet, capSets) == prevSet + 1
NextSet(prevSet, capSets) == IF capSets > 0 THEN (prevSet + 1) % capSets ELSE prevSet

\* A state setter of useState: React applies the update to a mounted component
\* and drops it for one that has been unmounted.
DispatchAlways(isMounted, cur, new) == new
Dispatch(isMounted, cur, new) == IF isMounted THEN new ELSE cur

\* clearInterval(interval) in the effect's cleanup; setInterval in its body.
KeepInterval(n) == n
ClearInterval(n) == IF n > 0 THEN n - 1 ELSE 0
SetInterval(n) == n + 1

\* An effect re-run: the cleanup the previous run returned, then the effect body.
AddInterval(n) == SetInterval(n)
RenewInterval(n) == SetInterval(ClearInterval(n))

\* useState(0): a mount starts each index at 0, whatever an earlier mount of
\* the same component left behind.
KeepState(prev) == prev
InitialState(prev) == 0

\* Mount: useState(0) twice, first render, then the effect creates the interval.
CMount(i) ==
    /\ ~mounted[i]
    /\ \E sets \in FrameSetsOptions, r \in RateOptions :
        /\ mounted' = [mounted EXCEPT ![i] = TRUE]
        /\ frameSets' = [frameSets EXCEPT ![i] = sets]
        /\ frameRate' = [frameRate EXCEPT ![i] = RateOrDefault(r)]
        /\ setIndex' = [setIndex EXCEPT ![i] = InitialState(@)]
        /\ frameIndex' = [frameIndex EXCEPT ![i] = InitialState(@)]
        /\ ticks' = [ticks EXCEPT ![i] = 0]
        /\ timers' = [timers EXCEPT ![i] = SetInterval(@)]
        /\ closure' = [closure EXCEPT ![i] = DepsOf(RateOrDefault(r), sets, 0)]
    /\ UNCHANGED <<svars, leaks>>

\* One firing of a live interval: the callback queues the updater, React runs
\* it (and the set updater it queues), commits, and re-runs the effect when a
\* dependency differs from the one the interval was created with.
CTick(i) ==
    /\ timers[i] > 0
    /\ ticks[i] < MaxTicks
    /\ LET wraps == Wraps(frameIndex[i], closure[i].len)
           newFrame == Dispatch(mounted[i], frameIndex[i],
                                NextFrame(frameIndex[i], closure[i].len))
           newSet == IF wraps
                     THEN Dispatch(mounted[i], setIndex[i],
                                   NextSet(setIndex[i], closure[i].nsets))
                     ELSE setIndex[i]
           newDeps == DepsOf(frameRate[i], frameSets[i], newSet)
           rerun == mounted[i] /\ DepsChanged(closure[i], newDeps)
       IN /\ frameIndex' = [frameIndex EXCEPT ![i] = newFrame]
          /\ setIndex' = [setIndex EXCEPT ![i] = newSet]
          /\ ticks' = [ticks EXCEPT ![i] = IF mounted[i] THEN @ + 1 ELSE @]
          /\ timers' = [timers EXCEPT ![i] =
                          IF rerun THEN RenewInterval(@) ELSE @]
          /\ closure' = [closure EXCEPT ![i] = IF rerun THEN newDeps ELSE @]
    /\ UNCHANGED <<mounted, frameSets, frameRate, svars, leaks>>

\* The host re-renders with another frameRate: a dependency changed, so the
\* cleanup cancels the interval and the effect creates one with the new period.
CSetFrameRate(i) ==
    /\ mounted[i]
    /\ \E r \in RateOptions :
        LET newDeps == DepsOf(RateOrDefault(r), frameSets[i], setIndex[i])
            rerun == DepsChanged(closure[i], newDeps)
        IN /\ RateOrDefault(r) # frameRate[i]
           /\ frameRate' = [frameRate EXCEPT ![i] = RateOrDefault(r)]
           /\ timers' = [timers EXCEPT ![i] =
                           IF rerun THEN RenewInterval(@) ELSE @]
           /\ closure' = [closure EXCEPT ![i] = IF rerun THEN newDeps ELSE @]
    /\ UNCHANGED <<mounted, frameSets, setIndex, frameIndex, ticks, svars, leaks>>

\* Unmount: the effect's cleanup runs and nothing else; the cleanup calls no
\* setter, so the indices stay at the values the component last held until a
\* mount initialises them again.  The callback object (and what it captured)
\* outlives the component.
CUnmount(i) ==
    /\ mounted[i]
    /\ mounted' = [mounted EXCEPT ![i] = FALSE]
    /\ timers' = [timers EXCEPT ![i] = ClearInterval(@)]
    /\ frameSets' = [frameSets EXCEPT ![i] = <<>>]
    /\ frameRate' = [frameRate EXCEPT ![i] = 0]
    /\ ticks' = [ticks EXCEPT ![i] = 0]
    /\ UNCHANGED <<setIndex, frameIndex, closure, svars, leaks>>

\* The callback of an interval created before the unmount is invoked by hand
\* afterwards (a leaked timer): it calls the setters of the unmounted component.
CLeakedFire(i) ==
    /\ ~mounted[i]
    /\ closure[i] # NoClosure
    /\ cLeaks < MaxLeaks
    /\ LET wraps == Wraps(frameIndex[i], closure[i].len)
       IN /\ frameIndex' = [frameIndex EXCEPT ![i] =
                  Dispatch(mounted[i], @, NextFrame(@, closure[i].len))]
          /\ setIndex' = [setIndex EXCEPT ![i] =
                  IF wraps THEN Dispatch(mounted[i], @, NextSet(@, closure[i].nsets))
                  ELSE @]
    /\ cLeaks' = cLeaks + 1
    /\ UNCHANGED <<mounted, frameSets, frameRate, timers, closure, ticks, svars, sLeaks>>

\* The passive effects of the last commit, run on their own: a dependency
\* differs from the one the live interval was created with, so the cleanup
\* cancels it and the effect creates the next over the committed values.
CFlushEffects(i) ==
    /\ mounted[i]
    /\ LET cur == DepsOf(frameRate[i], frameSets[i], setIndex[i])
       IN /\ DepsChanged(closure[i], cur)
          /\ timers' = [timers EXCEPT ![i] = RenewInterval(@)]
          /\ closure' = [closure EXCEPT ![i] = cur]
    /\ UNCHANGED <<mounted, frameSets, frameRate, setIndex, frameIndex, ticks, svars,
                   leaks>>

\* One firing of a live interval whose render and commit are not followed at
\* once by the effects.  The callback queues the updater it was created with;
\* React flushes the effects still pending from the commit before, renders
\* (the updater runs over the values the callback captured) and commits.
CTickCommit(i) ==
    /\ timers[i] > 0
    /\ ticks[i] < MaxTicks
    /\ LET cap == closure[i]
           cur == DepsOf(frameRate[i], frameSets[i], setIndex[i])
           wraps == Wraps(frameIndex[i], cap.len)
           newFrame == Dispatch(mounted[i], frameIndex[i],
                                NextFrame(frameIndex[i], cap.len))
           newSet == IF wraps
                     THEN Dispatch(mounted[i], setIndex[i],
                                   NextSet(setIndex[i], cap.nsets))
                     ELSE setIndex[i]
       IN /\ frameIndex' = [frameIndex EXCEPT ![i] = newFrame]
          /\ setIndex' = [setIndex EXCEPT ![i] = newSet]
          /\ ticks' = [ticks EXCEPT ![i] = IF mounted[i] THEN @ + 1 ELSE @]
          /\ timers' = [timers EXCEPT ![i] =
                          IF DepsChanged(cap, cur) THEN RenewInterval(@)
                          ELSE @]
          /\ closure' = [closure EXCEPT ![i] = cur]
    /\ UNCHANGED <<mounted, frameSets, frameRate, svars, leaks>>

\* The set updaters queued by two evaluations of a frame updater that wraps,
\* applied in order: each evaluation calls setSetIndex once.
QueuedTwice(prevSet, capSets) == NextSet(NextSet(prevSet, capSets), capSets)

\* One firing of a live interval whose frame updater React evaluates twice
\* over the same previous frame index.  Both evaluations return the same frame
\* index; the call of setSetIndex inside the updater is made by each of them.
CTickReplayed(i) ==
    /\ timers[i] > 0
    /\ ticks[i] < MaxTicks
    /\ LET wraps == Wraps(frameIndex[i], closure[i].len)
           newFrame == Dispatch(mounted[i], frameIndex[i],
                                NextFrame(frameIndex[i], closure[i].len))
           newSet == IF wraps
                     THEN Dispatch(mounted[i], setIndex[i],
                                   QueuedTwice(setIndex[i], closure[i].nsets))
                     ELSE setIndex[i]
           newDeps == DepsOf(frameRate[i], frameSets[i], newSet)
           rerun == mounted[i] /\ DepsChanged(closure[i], newDeps)
       IN /\ frameIndex' = [frameIndex EXCEPT ![i] = newFrame]
          /\ setIndex' = [setIndex EXCEPT ![i] = newSet]
          /\ ticks' = [ticks EXCEPT ![i] = IF mounted[i] THEN @ + 1 ELSE @]
          /\ timers' = [timers EXCEPT ![i] = IF rerun THEN RenewInterval(@) ELSE @]
          /\ closure' = [closure EXCEPT ![i] = IF rerun THEN newDeps ELSE @]
    /\ UNCHANGED <<mounted, frameSets, frameRate, svars, leaks>>

LagStep(i) ==
    \/ CMount(i)
    \/ CTickCommit(i)
    \/ CFlushEffects(i)
    \/ CSetFrameRate(i)
    \/ CUnmount(i)

CyclerStep(i) ==
    \/ CMount(i)
    \/ CTick(i)
    \/ CSetFrameRate(i)
    \/ CUnmount(i)
    \/ CLeakedFire(i)

Init ==
    /\ mounted = [i \in CyclerIds |-> FALSE]
    /\ frameSets = [i \in CyclerIds |-> <<>>]
    /\ frameRate = [i \in CyclerIds |-> 0]
    /\ setIndex = [i \in CyclerIds |-> 0]
    /\ frameIndex = [i \in CyclerIds |-> 0]
    /\ timers = [i \in CyclerIds |-> 0]
    /\ closure = [i \in CyclerIds |-> NoClosure]
    /\ ticks = [i \in CyclerIds |-> 0]
    /\ sMounted = [j \in ScrollIds |-> FALSE]
    /\ frames = [j \in ScrollIds |-> <<>>]
    /\ sFrameRate = [j \in ScrollIds |-> 0]
    /\ direction = [j \in ScrollIds |-> Omitted]
    /\ scrollFrameIndex = [j \in ScrollIds |-> 0]
    /\ sTimers = [j \in ScrollIds |-> 0]
    /\ sClosure = [j \in ScrollIds |-> NoClosure]
    /\ loops = [j \in ScrollIds |-> 0]
    /\ head = <<>>
    /\ cLeaks = 0
    /\ sLeaks = 0

\* ---------------------------------------------------------- ScrollingAscii
\* frameRate = 150 and direction = 'right' in the parameter list.
ScrollRateOrDefault(r) == IF r = Omitted THEN DefaultScrollFrameRate ELSE r[1]
DirectionOrDefault(d) == IF d = Omitted THEN DefaultDirection ELSE d[1]

\* The dependency array [frameRate, frames.length].
ScrollDepsOf(rate, fr) == [rate |-> rate, nsets |-> 1, len |-> Len(fr)]

\* The updater passed to setFrameIndex: (prev + 1) % frames.length on the captured frames.
ScrollNextNoMod(prev, capLen) == prev + 1
ScrollNext(prev, capLen) == IF capLen > 0 THEN (prev + 1) % capLen ELSE prev

\* {frames[frameIndex]}
ScrollFrameAt(fr, f) == IF f + 1 \in DOMAIN fr THEN fr[f + 1] ELSE Undefined

displayedFrame(j) == ScrollFrameAt(frames[j], scrollFrameIndex[j])

\* scrollStyle.animation: `scroll-${direction} ${scrollDuration}s linear infinite`
AnimationNameFixed(dir) == "scroll-right"
AnimationName(dir) == "scroll-" \o dir

scrollStyleByFrame(j) ==
    [name |-> AnimationName(IF scrollFrameIndex[j] % 2 = 0 THEN "right" ELSE "left"),
     duration |-> DefaultScrollDuration, timing |-> "linear", iteration |-> "infinite"]
scrollStyle(j) ==
    [name |-> AnimationName(DirectionOrDefault(direction[j])), duration |-> DefaultScrollDuration,
     timing |-> "linear", iteration |-> "infinite"]

\* The injected style sheet.  A horizontal position is -1 for translateX(-100%)
\* (off the left edge) and 1 for translateX(100vw) (off the right edge).
StyleId == "ascii-scroll-keyframes"

Keyframes ==
    {[name |-> "scroll-right", from |-> -1, to |-> 1],
     [name |-> "scroll-left", from |-> 1, to |-> -1]}

StyleSheet == [id |-> StyleId, keyframes |-> Keyframes]

\* document.getElementById(styleId)
HasElement(h, id) == \E k \in DOMAIN h : h[k].id = id

\* The keyframe effect: append the style sheet unless the id is already there.
InjectAlways(h) == Append(h, StyleSheet)
InjectKeyframes(h) == IF ~HasElement(h, StyleId) THEN Append(h, StyleSheet) ELSE h

\* The keyframe effect returns no cleanup: an unmount leaves the page's style
\* elements as they are.
RemoveKeyframes(h) == SelectSeq(h, LAMBDA e : e.id # StyleId)
CleanupKeyframes(h) == h

\* Mount: useState(0), first render, then both effects run.
SMount(j) ==
    /\ ~sMounted[j]
    /\ \E fr \in FramesOptions, r \in RateOptions, d \in DirectionOptions :
        /\ sMounted' = [sMounted EXCEPT ![j] = TRUE]
        /\ frames' = [frames EXCEPT ![j] = fr]
        /\ sFrameRate' = [sFrameRate EXCEPT ![j] = ScrollRateOrDefault(r)]
        /\ direction' = [direction EXCEPT ![j] = d]
        /\ scrollFrameIndex' = [scrollFrameIndex EXCEPT ![j] = 0]
        /\ sTimers' = [sTimers EXCEPT ![j] = SetInterval(@)]
        /\ sClosure' = [sClosure EXCEPT ![j] = ScrollDepsOf(ScrollRateOrDefault(r), fr)]
    /\ loops' = [loops EXCEPT ![j] = 0]
    /\ head' = InjectKeyframes(head)
    /\ UNCHANGED <<cvars, leaks>>

\* useState inside the component: the setter of instance j writes the cell of
\* instance j and no other.
SetSharedState(cells, j, v) == [k \in DOMAIN cells |-> v]
SetState(cells, j, v) == [cells EXCEPT ![j] = v]

\* One firing of a live interval.  Neither dependency depends on the state, so
\* the effect does not re-run.
STick(j) ==
    /\ sTimers[j] > 0
    /\ scrollFrameIndex' = SetState(scrollFrameIndex, j,
           Dispatch(sMounted[j], scrollFrameIndex[j],
                    ScrollNext(scrollFrameIndex[j], sClosure[j].len)))
    /\ UNCHANGED <<sMounted, frames, sFrameRate, direction, sTimers, sClosure, loops,
                   head, cvars, leaks>>

\* The host re-renders with another frameRate: the interval is re-created.
SSetFrameRate(j) ==
    /\ sMounted[j]
    /\ \E r \in RateOptions :
        LET newDeps == ScrollDepsOf(ScrollRateOrDefault(r), frames[j])
            rerun == DepsChanged(sClosure[j], newDeps)
        IN /\ ScrollRateOrDefault(r) # sFrameRate[j]
           /\ sFrameRate' = [sFrameRate EXCEPT ![j] = ScrollRateOrDefault(r)]
           /\ sTimers' = [sTimers EXCEPT ![j] =
                            IF rerun THEN RenewInterval(@) ELSE @]
           /\ sClosure' = [sClosure EXCEPT ![j] = IF rerun THEN newDeps ELSE @]
    /\ UNCHANGED <<sMounted, frames, direction, scrollFrameIndex, loops, head, cvars,
                   leaks>>

\* The host re-renders with another direction: no dependency of an effect.  The
\* browser starts the animation the style now names when the name differs.
SSetDirection(j) ==
    /\ sMounted[j]
    /\ \E d \in DirectionOptions :
        /\ d # direction[j]
        /\ direction' = [direction EXCEPT ![j] = d]
        /\ loops' = [loops EXCEPT ![j] =
               IF DirectionOrDefault(d) # DirectionOrDefault(direction[j]) THEN 0 ELSE @]
    /\ UNCHANGED <<sMounted, frames, sFrameRate, scrollFrameIndex, sTimers, sClosure,
                   head, cvars, leaks>>

\* Unmount: the interval effect's cleanup runs; the keyframe effect has none.
SUnmount(j) ==
    /\ sMounted[j]
    /\ sMounted' = [sMounted EXCEPT ![j] = FALSE]
    /\ sTimers' = [sTimers EXCEPT ![j] = ClearInterval(@)]
    /\ frames' = [frames EXCEPT ![j] = <<>>]
    /\ sFrameRate' = [sFrameRate EXCEPT ![j] = 0]
    /\ direction' = [direction EXCEPT ![j] = Omitted]
    /\ scrollFrameIndex' = [scrollFrameIndex EXCEPT ![j] = 0]
    /\ loops' = [loops EXCEPT ![j] = 0]
    /\ head' = CleanupKeyframes(head)
    /\ UNCHANGED <<sClosure, cvars, leaks>>

\* The callback of an interval created before the unmount, invoked by hand.
SLeakedFire(j) ==
    /\ ~sMounted[j]
    /\ sClosure[j] # NoClosure
    /\ sLeaks < MaxLeaks
    /\ scrollFrameIndex' = [scrollFrameIndex EXCEPT ![j] =
           Dispatch(sMounted[j], @, ScrollNext(@, sClosure[j].len))]
    /\ sLeaks' = sLeaks + 1
    /\ UNCHANGED <<sMounted, frames, sFrameRate, direction, sTimers, sClosure, loops, head,
                   cvars, cLeaks>>

\* `linear infinite`: the browser finishes one pass of the position animation
\* and starts the next, on its own clock.
SLoop(j) ==
    /\ sMounted[j]
    /\ loops[j] < MaxLoops
    /\ loops' = [loops EXCEPT ![j] = @ + 1]
    /\ UNCHANGED <<sMounted, frames, sFrameRate, direction, scrollFrameIndex, sTimers,
                   sClosure, head, cvars, leaks>>

ScrollStep(j) ==
    \/ SMount(j)
    \/ STick(j)
    \/ SSetFrameRate(j)
    \/ SSetDirection(j)
    \/ SUnmount(j)
    \/ SLeakedFire(j)

\* ----------------------------------------------------------- specifications
\* A page of cyclers only, a page of scroll layers only, and a page with both.
NextCycler == \E i \in CyclerIds : CyclerStep(i)
NextScroll == \E j \in ScrollIds : ScrollStep(j)
Next ==
    \/ \E i \in CyclerIds : CyclerStep(i)
    \/ \E j \in MixedScrollIds : ScrollStep(j)

\* One cycler whose effects may lag behind the commit.
NextLag == \E i \in CyclerIds : LagStep(i)

\* One cycler under a host that may evaluate a tick's updater twice.
NextReplay == \E i \in CyclerIds : CyclerStep(i) \/ CTickReplayed(i)

\* One scroll layer together with the browser's position animation.
NextDrift == \E j \in MixedScrollIds : ScrollStep(j) \/ SLoop(j)

SpecCycler == Init /\ [][NextCycler]_vars
SpecScroll == Init /\ [][NextScroll]_vars
Spec == Init /\ [][Next]_vars
SpecDrift == Init /\ [][NextDrift]_vars
SpecLag == Init /\ [][NextLag]_vars
SpecReplay == Init /\ [][NextReplay]_vars

\* ------------------------------------------------------------------ claims
\* len(frameSets), the sum of the sets' lengths, and the sets laid end to end.
RECURSIVE TotalFrames(_)
TotalFrames(sets) == IF sets = <<>> THEN 0 ELSE Len(Head(sets)) + TotalFrames(Tail(sets))

RECURSIVE Flatten(_)
Flatten(sets) == IF sets = <<>> THEN <<>> ELSE Head(sets) \o Flatten(Tail(sets))

LensOf(sets) == [k \in DOMAIN sets |-> Len(sets[k])]

C6_NoOrphanInterval ==
    /\ \A i \in CyclerIds : ~mounted[i] => timers[i] = 0
    /\ \A j \in ScrollIds : ~sMounted[j] => sTimers[j] = 0

\* Both components torn down after their intervals had been re-created for a
\* changed frameRate.
C6_Witness ==
    /\ \E i \in CyclerIds :
          ~mounted[i] /\ closure[i] # NoClosure /\ closure[i].rate # DefaultFrameRate
    /\ \E j \in MixedScrollIds :
          ~sMounted[j] /\ sClosure[j] # NoClosure
          /\ sClosure[j].rate # DefaultScrollFrameRate

\* The style elements of the page that carry the keyframe id.
KeyframeDefinitions == {k \in DOMAIN head : head[k].id = StyleId}

\* C7: once any scroll layer has mounted, the page holds exactly one element
\* with the keyframe id, however many layers mounted and unmounted since.
C7_OneKeyframeDefinition ==
    (\E j \in ScrollIds : sClosure[j] # NoClosure) =>
        Cardinality(KeyframeDefinitions) = 1

\* Every layer of the page is mounted, one of them again after an unmount
\* during which its old callback was invoked.
C7_Witness ==
    /\ \A j \in ScrollIds : sMounted[j]
    /\ sLeaks > 0

\* C8: a scroll tick sets frameIndex to (frameIndex + 1) mod len(frames), which
\* is an index of frames, and the text on display is the frame at that index.
C8_ScrollTick ==
    [][\A j \in ScrollIds :
          STick(j) =>
              LET n == Len(frames[j])
                  next == (scrollFrameIndex[j] + 1) % n
              IN /\ scrollFrameIndex'[j] = next
                 /\ 0 <= scrollFrameIndex'[j] /\ scrollFrameIndex'[j] < n
                 /\ displayedFrame(j)' = frames[j][next + 1]]_vars

\* [X, Y] showing Y.
C8_Witness ==
    \E j \in ScrollIds :
        sMounted[j] /\ Len(frames[j]) = 2 /\ scrollFrameIndex[j] = 1
        /\ displayedFrame(j) = 2

\* C9: a cycler over one set of one frame is at (0, 0) whatever the number of ticks.
C9_SingleFrameFixed ==
    \A i \in CyclerIds :
        (mounted[i] /\ LensOf(frameSets[i]) = <<1>>) =>
            (setIndex[i] = 0 /\ frameIndex[i] = 0)

C9_Witness ==
    \E i \in CyclerIds :
        mounted[i] /\ LensOf(frameSets[i]) = <<1>> /\ ticks[i] = MaxTicks

\* The way a keyframe definition moves the layer.
ProfileDirection(kf) == IF kf.to > kf.from THEN "right" ELSE "left"

\* C10: the animation a mounted scroll layer names is defined by the registered
\* style sheet and moves the way its direction option says (to the right when
\* the option is left out), at every frame index.
C10_ProfileMatchesDirection ==
    \A j \in ScrollIds :
        sMounted[j] =>
            \E k \in KeyframeDefinitions :
                \E kf \in head[k].keyframes :
                    /\ kf.name = scrollStyle(j).name
                    /\ ProfileDirection(kf) =
                          (IF direction[j] = Omitted THEN "right" ELSE direction[j][1])

\* One layer mounted without a direction and past its first frame, another
\* mounted to the left.
C10_Witness ==
    /\ \E j \in ScrollIds :
          sMounted[j] /\ direction[j] = Omitted /\ scrollFrameIndex[j] = 1
    /\ \E j \in ScrollIds : sMounted[j] /\ direction[j] = <<"left">>

\* C11: a step that changes a mounted layer's frame index leaves its position
\* animation (the style it names and the passes it has completed) as it was,
\* and a step that advances the position animation leaves the frame index.
C11_FrameAndPositionIndependent ==
    [][\A j \in ScrollIds :
          (sMounted[j] /\ sMounted'[j]) =>
              /\ scrollFrameIndex'[j] # scrollFrameIndex[j] =>
                     (scrollStyle(j)' = scrollStyle(j) /\ loops'[j] = loops[j])
              /\ loops'[j] > loops[j] =>
                     (scrollFrameIndex'[j] = scrollFrameIndex[j]
                      /\ scrollStyle(j)' = scrollStyle(j))]_vars

\* The second frame on display during the second pass of the animation.
C11_Witness ==
    \E j \in ScrollIds :
        sMounted[j] /\ Len(frames[j]) = 2 /\ scrollFrameIndex[j] = 1 /\ loops[j] = 1

\* C12: every style element of the page stays where it is with the content it
\* has, whatever step is taken: no mount and no unmount modifies or removes
\* the registered keyframe definition.
C12_KeyframesPermanent ==
    [][\A k \in DOMAIN head : k \in DOMAIN head' /\ head'[k] = head[k]]_vars

\* The definition is on the page when the layer that registered it is gone
\* and another layer, mounted later, has found it there.
C12_Witness ==
    /\ HasElement(head, StyleId)
    /\ \E j, k \in ScrollIds :
          /\ ~sMounted[j] /\ sClosure[j] # NoClosure
          /\ sMounted[k] /\ scrollFrameIndex[k] > 0

\* C13: a mount, first or repeated, leaves both indices at 0; a step that
\* changes an index is a tick or a mount; a re-render with another frame rate
\* (which re-runs the effect) and an unmount leave both indices as they were.
C13_OnlyTicksMoveIndices ==
    [][\A i \in CyclerIds :
          LET moved == setIndex'[i] # setIndex[i] \/ frameIndex'[i] # frameIndex[i]
          IN /\ (~mounted[i] /\ mounted'[i]) =>
                    (setIndex'[i] = 0 /\ frameIndex'[i] = 0)
             /\ moved => (ticks'[i] = ticks[i] + 1 \/ (~mounted[i] /\ mounted'[i]))
             /\ (mounted[i] /\ ~mounted'[i]) => ~moved
             /\ (mounted[i] /\ mounted'[i] /\ frameRate'[i] # frameRate[i]) => ~moved]_vars

\* A component mounted again, at (0, 0) with a non-default rate, after the
\* callback of its earlier mount was invoked while it was unmounted.
C13_Witness ==
    \E i \in CyclerIds :
        /\ mounted[i] /\ cLeaks > 0 /\ ticks[i] = 0
        /\ setIndex[i] = 0 /\ frameIndex[i] = 0
        /\ Len(frameSets[i]) = 2 /\ frameRate[i] # DefaultFrameRate

\* Everything the model holds for one cycler, and for one scroll layer.
CyclerInstance(i) ==
    <<mounted[i], frameSets[i], frameRate[i], setIndex[i], frameIndex[i], timers[i],
      closure[i], ticks[i]>>
ScrollInstance(j) ==
    <<sMounted[j], frames[j], sFrameRate[j], direction[j], scrollFrameIndex[j],
      sTimers[j], sClosure[j], loops[j]>>

C15_HandlerLengthCurrent ==
    [][\A i \in CyclerIds :
          ticks'[i] = ticks[i] + 1 =>
              closure[i].len = SetLen(frameSets[i], setIndex[i])]_vars

\* C16: a mounted cycler or scroll layer owns at most one live interval (and
\* exactly one), however often its timer effect has re-run.
C16_AtMostOneInterval ==
    /\ \A i \in CyclerIds : timers[i] <= 1 /\ (mounted[i] => timers[i] = 1)
    /\ \A j \in ScrollIds : sTimers[j] <= 1 /\ (sMounted[j] => sTimers[j] = 1)

\* A cycler whose interval was re-created over the second set, of another
\* length than the first, and again for a non-default rate, beside a scroll
\* layer that ticks at a non-default rate.
C16_Witness ==
    /\ \E i \in CyclerIds :
          /\ mounted[i] /\ timers[i] = 1 /\ setIndex[i] = 1 /\ ticks[i] > 0
          /\ closure[i].len # SetLen(frameSets[i], 0)
          /\ closure[i].rate # DefaultFrameRate
    /\ \E j \in MixedScrollIds :
          /\ sMounted[j] /\ sTimers[j] = 1 /\ scrollFrameIndex[j] > 0
          /\ sClosure[j].rate # DefaultScrollFrameRate

\* C17: a tick that wraps leaves the set index one set further (mod the number
\* of sets) and the frame index at 0, however many times its updater was run.
C17_WrapAdvancesOnce ==
    [][\A i \in CyclerIds :
          (ticks'[i] = ticks[i] + 1
           /\ frameIndex[i] + 1 >= SetLen(frameSets[i], setIndex[i])) =>
              /\ setIndex'[i] = (setIndex[i] + 1) % Len(frameSets[i])
              /\ frameIndex'[i] = 0]_vars
====
